---------------------------- MODULE Spec2Model ----------------------------
(***************************************************************************)
(* Model of Scripts/chromebook_spoofer.py (class ChromebookSpoofer).       *)
(*                                                                         *)
(* The class is a set of pure functions over a hardware report.  The       *)
(* state is one call: the report handed in, the method called and what it  *)
(* returned (a value, or an exception).                                    *)
(*                                                                         *)
(* Python values are modelled as tagged records:                           *)
(*   str   [t |-> "str",  s |-> <<characters>>, d |-> <<>>]                *)
(*   None  [t |-> "none", s |-> <<>>,           d |-> <<>>]                *)
(*   dict  [t |-> "dict", s |-> <<>>, d |-> <<item, ...>>], an item being  *)
(*         <<key, value>>, in the dict's insertion (= iteration) order.    *)
(* A str is a sequence of one-character strings, so that upper(), `in`,    *)
(* slicing and startswith are computed character by character.             *)
(***************************************************************************)
EXTENDS Integers, Sequences, FiniteSets, TLC

VARIABLES hardware_report, op, ret

vars == <<hardware_report, op, ret>>

----------------------------------------------------------------------------
(* Python values *)

PyNone == [t |-> "none", s |-> <<>>, d |-> <<>>]

PyStr(cs) == [t |-> "str", s |-> cs, d |-> <<>>]

PyDict(items) == [t |-> "dict", s |-> <<>>, d |-> items]

EmptyStr == PyStr(<<>>)

EmptyDict == PyDict(<<>>)

(* A key that is left out when a dict literal is built. *)
Absent == [t |-> "absent", s |-> <<>>, d |-> <<>>]

IsPresent(item) == item[2].t # "absent"

MkDict(items) == PyDict(SelectSeq(items, IsPresent))

(* The result of a call: a returned value, or an exception that leaves it. *)
Return(v) == [ok |-> TRUE, val |-> v]

Raise == [ok |-> FALSE, val |-> "exception"]

NoDict == [k \in {} |-> {}]

----------------------------------------------------------------------------
(* Python primitives *)

HasKey(dict, key) == \E i \in 1..Len(dict.d) : dict.d[i][1] = key

(* dict.get(key, default), for a receiver that is a dict. *)
Get_NoDefault(dict, key, default) ==
    IF HasKey(dict, key)
    THEN dict.d[CHOOSE i \in 1..Len(dict.d) : dict.d[i][1] = key][2]
    ELSE PyNone

Get(dict, key, default) ==
    IF HasKey(dict, key)
    THEN dict.d[CHOOSE i \in 1..Len(dict.d) : dict.d[i][1] = key][2]
    ELSE default

(* x.get(...) raises AttributeError unless x is a dict (None has no get). *)
CanGet(x) == x.t = "dict"

LowerCase == <<"a","b","c","d","e","f","g","h","i","j","k","l","m",
               "n","o","p","q","r","s","t","u","v","w","x","y","z">>

UpperCase == <<"A","B","C","D","E","F","G","H","I","J","K","L","M",
               "N","O","P","Q","R","S","T","U","V","W","X","Y","Z">>

UpperChar(c) ==
    IF \E i \in 1..Len(LowerCase) : LowerCase[i] = c
    THEN UpperCase[CHOOSE i \in 1..Len(LowerCase) : LowerCase[i] = c]
    ELSE c

(* str.upper() *)
Upper(cs) == [i \in 1..Len(cs) |-> UpperChar(cs[i])]

(* sub in cs, for two strs *)
Contains(cs, sub) ==
    \E i \in 0..(Len(cs) - Len(sub)) : SubSeq(cs, i + 1, i + Len(sub)) = sub

(* cs.startswith(prefix) *)
StartsWith(cs, prefix) ==
    /\ Len(cs) >= Len(prefix)
    /\ SubSeq(cs, 1, Len(prefix)) = prefix

(* cs.startswith((p1, p2, ...)) *)
StartsWithAny(cs, prefixes) == \E i \in 1..Len(prefixes) : StartsWith(cs, prefixes[i])

(* cs[n:] *)
SliceFrom(cs, n) == SubSeq(cs, n + 1, Len(cs))

(* `"..." in x`, len(x) and x.upper() raise for None (TypeError, AttributeError). *)
IsStr(x) == x.t = "str"

----------------------------------------------------------------------------
(* String constants of the source *)

s_GOOGLE == <<"G","O","O","G","L","E">>
s_Unknown == <<"U","n","k","n","o","w","n">>
s_Intel == <<"I","n","t","e","l">>
s_Integrated == <<"I","n","t","e","g","r","a","t","e","d">>
s_Celeron == <<"C","e","l","e","r","o","n">>
s_Pentium == <<"P","e","n","t","i","u","m">>
s_Haswell == <<"H","a","s","w","e","l","l">>
s_Broadwell == <<"B","r","o","a","d","w","e","l","l">>
s_Skylake == <<"S","k","y","l","a","k","e">>
s_Kaby_Lake == <<"K","a","b","y"," ","L","a","k","e">>
s_Apollo_Lake == <<"A","p","o","l","l","o"," ","L","a","k","e">>
s_Goldmont == <<"G","o","l","d","m","o","n","t">>
s_Gemini_Lake == <<"G","e","m","i","n","i"," ","L","a","k","e">>
s_Comet_Lake == <<"C","o","m","e","t"," ","L","a","k","e">>
s_Ice_Lake == <<"I","c","e"," ","L","a","k","e">>

----------------------------------------------------------------------------
(* pci_data.ChromebookIDs: device id -> set of subsystem ids.  The table   *)
(* lives in Scripts/datasets/pci_data.py; it is read here as a mapping     *)
(* from a device-id string to the set of subsystem-id strings.             *)

id_k1 == <<"8","0","8","6","-","9","D","2","D">>
id_k2 == <<"8","0","8","6","-","3","1","A","8">>
id_kX == <<"8","0","8","6","-","A","0","E","8">>
sub_A == <<"1","A","E","0","-","0","0","6","B">>
sub_B == <<"1","A","E","0","-","0","0","C","4">>
sub_C == <<"8","0","8","6","-","7","2","7","0">>
sub_X == <<"1","0","2","5","-","1","2","3","4">>

ChromebookIDs == (id_k1 :> {sub_A, sub_B}) @@ (id_k2 :> {sub_C})

----------------------------------------------------------------------------
(* is_chromebook *)

(* The test of lines 40-41 on one device entry.  None is a key of no dict  *)
(* and a member of no set, so a None id is no match and raises nothing.    *)
DeviceMatches_KeyOnly(device_id, subsystem_id) ==
    /\ device_id.t = "str"
    /\ device_id.s \in DOMAIN ChromebookIDs

DeviceMatches(device_id, subsystem_id) ==
    /\ device_id.t = "str"
    /\ device_id.s \in DOMAIN ChromebookIDs
    /\ subsystem_id.t = "str"
    /\ subsystem_id.s \in ChromebookIDs[device_id.s]

(* The loop of lines 36-42 from item i on; TRUE at the first match. *)
RECURSIVE ScanDevices(_, _)
ScanDevices(items, i) ==
    IF i > Len(items) THEN Return(FALSE)
    ELSE LET device_props == items[i][2] IN
         IF ~CanGet(device_props) THEN Raise
         ELSE LET device_id == Get(device_props, "Device ID", EmptyStr)
                  subsystem_id == Get(device_props, "Subsystem ID", EmptyStr)
              IN  IF DeviceMatches(device_id, subsystem_id) THEN Return(TRUE)
                  ELSE ScanDevices(items, i + 1)

is_chromebook(report) ==
    LET motherboard == Get(report, "Motherboard", EmptyDict) IN
    IF ~CanGet(motherboard) THEN Raise
    ELSE LET motherboard_name == Get(motherboard, "Name", EmptyStr) IN
         IF ~IsStr(motherboard_name) THEN Raise
         ELSE IF Contains(Upper(motherboard_name.s), s_GOOGLE) THEN Return(TRUE)
         ELSE LET system_devices == Get(report, "System Devices", EmptyDict) IN
              IF ~CanGet(system_devices) THEN Raise
              ELSE ScanDevices(system_devices.d, 1)

----------------------------------------------------------------------------
(* get_chromebook_info *)

(* The test of lines 68-69 on one device entry. *)
IsChromebookDevice_KeyOnly(device_id, subsystem_id) ==
    /\ device_id.t = "str"
    /\ device_id.s \in DOMAIN ChromebookIDs

IsChromebookDevice(device_id, subsystem_id) ==
    /\ device_id.t = "str"
    /\ device_id.s \in DOMAIN ChromebookIDs
    /\ subsystem_id.t = "str"
    /\ subsystem_id.s \in ChromebookIDs[device_id.s]

(* The loop of lines 64-74 from item i on: the list appended to, or Raise. *)
RECURSIVE CollectDevices(_, _, _)
CollectDevices(items, i, acc) ==
    IF i > Len(items) THEN Return(acc)
    ELSE LET device_name == items[i][1]
             device_props == items[i][2]
         IN
         IF ~CanGet(device_props) THEN Raise
         ELSE LET device_id == Get(device_props, "Device ID", EmptyStr)
                  subsystem_id == Get(device_props, "Subsystem ID", EmptyStr)
              IN  IF IsChromebookDevice(device_id, subsystem_id)
                  THEN CollectDevices(items, i + 1,
                           Append(acc, [name |-> device_name,
                                        device_id |-> device_id,
                                        subsystem_id |-> subsystem_id]))
                  ELSE CollectDevices(items, i + 1, acc)

get_chromebook_info(report) ==
    LET detected == is_chromebook(report) IN
    IF ~detected.ok THEN Raise
    ELSE LET motherboard == Get(report, "Motherboard", EmptyDict) IN
         IF ~CanGet(motherboard) THEN Raise
         ELSE LET system_devices == Get(report, "System Devices", EmptyDict) IN
              IF ~CanGet(system_devices) THEN Raise
              ELSE LET devices == CollectDevices(system_devices.d, 1, <<>>) IN
                   IF ~devices.ok THEN Raise
                   ELSE Return([is_chromebook |-> detected.val,
                                motherboard |-> Get(motherboard, "Name", PyStr(s_Unknown)),
                                chromebook_devices |-> devices.val])

----------------------------------------------------------------------------
(* spoof_igpu_for_chromebook *)

h_0A06 == <<"0","A","0","6">>
h_0A16 == <<"0","A","1","6">>
h_0A1E == <<"0","A","1","E">>
h_0A26 == <<"0","A","2","6">>
h_0A2E == <<"0","A","2","E">>
h_1606 == <<"1","6","0","6">>
h_1616 == <<"1","6","1","6">>
h_161E == <<"1","6","1","E">>
h_1626 == <<"1","6","2","6">>
h_162B == <<"1","6","2","B">>
h_1906 == <<"1","9","0","6">>
h_1916 == <<"1","9","1","6">>
h_191E == <<"1","9","1","E">>
h_1926 == <<"1","9","2","6">>
h_192B == <<"1","9","2","B">>
h_5906 == <<"5","9","0","6">>
h_5916 == <<"5","9","1","6">>
h_591E == <<"5","9","1","E">>
h_5926 == <<"5","9","2","6">>
h_5927 == <<"5","9","2","7">>
h_5A84 == <<"5","A","8","4">>
h_5A85 == <<"5","A","8","5">>
h_3184 == <<"3","1","8","4">>
h_3185 == <<"3","1","8","5">>
h_9B41 == <<"9","B","4","1">>
h_9BA5 == <<"9","B","A","5">>
h_9BA8 == <<"9","B","A","8">>
h_8A51 == <<"8","A","5","1">>
h_8A52 == <<"8","A","5","2">>
h_8A5A == <<"8","A","5","A">>

(* One branch of the if/elif chain of lines 109-178 each. *)
Rule_Haswell ==
    [prefixes |-> <<h_0A06, h_0A16, h_0A1E, h_0A26, h_0A2E>>,
     spoofed_device_id |-> "12040000", ig_platform_id |-> "0600260A",
     reason |-> "Chromebook Haswell iGPU spoofing"]

Rule_Broadwell ==
    [prefixes |-> <<h_1606, h_1616, h_161E, h_1626, h_162B>>,
     spoofed_device_id |-> "16160000", ig_platform_id |-> "06002616",
     reason |-> "Chromebook Broadwell iGPU spoofing"]

Rule_Skylake ==
    [prefixes |-> <<h_1906, h_1916, h_191E, h_1926, h_192B>>,
     spoofed_device_id |-> "16190000", ig_platform_id |-> "00001619",
     reason |-> "Chromebook Skylake iGPU spoofing"]

Rule_KabyLake ==
    [prefixes |-> <<h_5906, h_5916, h_591E, h_5926, h_5927>>,
     spoofed_device_id |-> "16590000", ig_platform_id |-> "00001659",
     reason |-> "Chromebook Kaby Lake iGPU spoofing"]

Rule_ApolloLake ==
    [prefixes |-> <<h_5A84, h_5A85>>,
     spoofed_device_id |-> "5A850000", ig_platform_id |-> "00005A84",
     reason |-> "Chromebook Apollo Lake iGPU spoofing"]

Rule_GeminiLake ==
    [prefixes |-> <<h_3184, h_3185>>,
     spoofed_device_id |-> "85310000", ig_platform_id |-> "00003185",
     reason |-> "Chromebook Gemini Lake iGPU spoofing"]

Rule_CometLake ==
    [prefixes |-> <<h_9B41, h_9BA5, h_9BA8>>,
     spoofed_device_id |-> "A53B0000", ig_platform_id |-> "0000A53B",
     reason |-> "Chromebook Comet Lake iGPU spoofing"]

Rule_IceLake ==
    [prefixes |-> <<h_8A51, h_8A52, h_8A5A>>,
     spoofed_device_id |-> "5A528A00", ig_platform_id |-> "00528A8A",
     reason |-> "Chromebook Ice Lake iGPU spoofing"]

(* The chain with a prefix of the Kaby Lake branch repeated further down. *)
IgpuRules_Overlap ==
    <<Rule_Haswell, Rule_Broadwell, Rule_Skylake, Rule_KabyLake,
      [Rule_ApolloLake EXCEPT !.prefixes = <<h_5A84, h_5A85, h_5916>>],
      Rule_GeminiLake, Rule_CometLake, Rule_IceLake>>

(* The chain in the order the branches are tried. *)
IgpuRules ==
    <<Rule_Haswell, Rule_Broadwell, Rule_Skylake, Rule_KabyLake,
      Rule_ApolloLake, Rule_GeminiLake, Rule_CometLake, Rule_IceLake>>

(* Line 100: what the test does with one GPU entry.  `or` evaluates its  *)
(* right side only when its left side is false, and `in` raises for None. *)
GpuFilter_And(gpu_manufacturer, gpu_type) ==
    IF ~IsStr(gpu_manufacturer) THEN "raise"
    ELSE IF Contains(gpu_manufacturer.s, s_Intel) THEN "process"
    ELSE IF ~IsStr(gpu_type) THEN "raise"
    ELSE IF ~Contains(gpu_type.s, s_Integrated) THEN "continue"
    ELSE "process"

GpuFilter(gpu_manufacturer, gpu_type) ==
    IF ~IsStr(gpu_manufacturer) THEN "raise"
    ELSE IF ~Contains(gpu_manufacturer.s, s_Intel) THEN "continue"
    ELSE IF ~IsStr(gpu_type) THEN "raise"
    ELSE IF ~Contains(gpu_type.s, s_Integrated) THEN "continue"
    ELSE "process"

(* Line 103. *)
DeviceIdShort_Trailing4(device_id) ==
    IF Len(device_id) >= 9 THEN SliceFrom(device_id, Len(device_id) - 4) ELSE device_id

DeviceIdShort(device_id) ==
    IF Len(device_id) >= 9 THEN SliceFrom(device_id, 5) ELSE device_id

(* The branches of `rules` whose startswith test is true of the id. *)
MatchingRules(rules, device_id_short) ==
    {i \in 1..Len(rules) : StartsWithAny(device_id_short, rules[i].prefixes)}

Min(S) == CHOOSE i \in S : \A j \in S : i <= j

Max(S) == CHOOSE i \in S : \A j \in S : i >= j

(* The dict assigned to spoof_config[gpu_name] by the branch `rule`. *)
SpoofEntry(rule, device_id) ==
    [original_device_id |-> device_id,
     spoofed_device_id |-> rule.spoofed_device_id,
     reason |-> rule.reason]
    @@ ("AAPL,ig-platform-id" :> rule.ig_platform_id)

(* spoof_config after the if/elif chain for one GPU: the first branch whose *)
(* test is true assigns, and no branch may.                                 *)
ApplyRules(spoof_config, gpu_name, device_id) ==
    LET matching == MatchingRules(IgpuRules, DeviceIdShort(device_id.s)) IN
    IF matching = {} THEN spoof_config
    ELSE (gpu_name :> SpoofEntry(IgpuRules[Min(matching)], device_id)) @@ spoof_config

(* The loop of lines 94-178 from item i on. *)
RECURSIVE SpoofGpus(_, _, _)
SpoofGpus(items, i, spoof_config) ==
    IF i > Len(items) THEN Return(spoof_config)
    ELSE LET gpu_name == items[i][1]
             gpu_props == items[i][2]
         IN
         IF ~CanGet(gpu_props) THEN Raise
         ELSE LET gpu_manufacturer == Get(gpu_props, "Manufacturer", EmptyStr)
                  device_id == Get(gpu_props, "Device ID", EmptyStr)
                  gpu_type == Get(gpu_props, "Device Type", EmptyStr)
                  filter == GpuFilter(gpu_manufacturer, gpu_type)
              IN
              IF filter = "raise" THEN Raise
              ELSE IF filter = "continue" THEN SpoofGpus(items, i + 1, spoof_config)
              ELSE IF ~IsStr(device_id) THEN Raise
              ELSE SpoofGpus(items, i + 1, ApplyRules(spoof_config, gpu_name, device_id))

spoof_igpu_for_chromebook(report, macos_version) ==
    LET gpus == Get(report, "GPU", EmptyDict) IN
    IF ~CanGet(gpus) THEN Raise
    ELSE SpoofGpus(gpus.d, 1, NoDict)

----------------------------------------------------------------------------
(* spoof_cpu_for_chromebook *)

(* Lines 198-202. *)
BaseSpoofInfo_WithSubstitute(cpu_name) ==
    [needs_spoofing |-> FALSE, original_cpu |-> cpu_name, reason |-> "",
     spoof_as |-> "", cpuid_data |-> ""]

BaseSpoofInfo(cpu_name) ==
    [needs_spoofing |-> FALSE, original_cpu |-> cpu_name, reason |-> ""]

(* The if/elif chain of lines 210-233 with the Gemini Lake branch tried    *)
(* before the Apollo Lake / Goldmont one.                                  *)
CpuRules_GeminiFirst ==
    <<[substrings |-> <<s_Haswell>>, spoof_as |-> "Core i5-4300U", cpuid_data |-> "C3060300"],
      [substrings |-> <<s_Broadwell>>, spoof_as |-> "Core i5-5300U", cpuid_data |-> "D4060300"],
      [substrings |-> <<s_Skylake>>, spoof_as |-> "Core i5-6300U", cpuid_data |-> "E3060300"],
      [substrings |-> <<s_Kaby_Lake>>, spoof_as |-> "Core i5-7300U", cpuid_data |-> "E9060300"],
      [substrings |-> <<s_Gemini_Lake>>, spoof_as |-> "Core i3-8100", cpuid_data |-> "EA060900"],
      [substrings |-> <<s_Apollo_Lake, s_Goldmont>>,
                                     spoof_as |-> "Core i3-7100U", cpuid_data |-> "E9060300"],
      [substrings |-> <<s_Comet_Lake>>, spoof_as |-> "Core i5-10210U", cpuid_data |-> "EC060A00"],
      [substrings |-> <<s_Ice_Lake>>, spoof_as |-> "Core i5-1035G1", cpuid_data |-> "E5060700"]>>

(* The if/elif chain of lines 210-233, one branch each, in the order tried. *)
CpuRules ==
    <<[substrings |-> <<s_Haswell>>, spoof_as |-> "Core i5-4300U", cpuid_data |-> "C3060300"],
      [substrings |-> <<s_Broadwell>>, spoof_as |-> "Core i5-5300U", cpuid_data |-> "D4060300"],
      [substrings |-> <<s_Skylake>>, spoof_as |-> "Core i5-6300U", cpuid_data |-> "E3060300"],
      [substrings |-> <<s_Kaby_Lake>>, spoof_as |-> "Core i5-7300U", cpuid_data |-> "E9060300"],
      [substrings |-> <<s_Apollo_Lake, s_Goldmont>>,
                                     spoof_as |-> "Core i3-7100U", cpuid_data |-> "E9060300"],
      [substrings |-> <<s_Gemini_Lake>>, spoof_as |-> "Core i3-8100", cpuid_data |-> "EA060900"],
      [substrings |-> <<s_Comet_Lake>>, spoof_as |-> "Core i5-10210U", cpuid_data |-> "EC060A00"],
      [substrings |-> <<s_Ice_Lake>>, spoof_as |-> "Core i5-1035G1", cpuid_data |-> "E5060700"]>>

(* The else branch, lines 234-237. *)
CpuFallback == [spoof_as |-> "Core i5 (Generic)", cpuid_data |-> "E3060300"]

(* `"A" in cpu_codename or "B" in cpu_codename` of one branch. *)
BranchTaken(rule, cpu_codename) ==
    \E k \in 1..Len(rule.substrings) : Contains(cpu_codename, rule.substrings[k])

(* Lines 206-237: spoof_info once a Celeron or Pentium is seen. *)
LowEndSpoofInfo(cpu_name, cpu_codename) ==
    LET taken == {i \in 1..Len(CpuRules) : BranchTaken(CpuRules[i], cpu_codename)}
        chosen == IF taken = {} THEN CpuFallback ELSE CpuRules[Min(taken)]
    IN  [needs_spoofing |-> TRUE,
         original_cpu |-> cpu_name,
         reason |-> "Chromebook low-end CPU detected (Celeron/Pentium)",
         spoof_as |-> chosen.spoof_as,
         cpuid_data |-> chosen.cpuid_data]

spoof_cpu_for_chromebook(report) ==
    LET cpu == Get(report, "CPU", EmptyDict) IN
    IF ~CanGet(cpu) THEN Raise
    ELSE LET cpu_name == Get(cpu, "Processor Name", EmptyStr)
             cpu_codename == Get(cpu, "Codename", EmptyStr)
         IN
         IF ~IsStr(cpu_name) THEN Raise
         ELSE IF ~(Contains(cpu_name.s, s_Celeron) \/ Contains(cpu_name.s, s_Pentium))
              THEN Return(BaseSpoofInfo(cpu_name))
         ELSE IF ~IsStr(cpu_codename) THEN Raise
         ELSE Return(LowEndSpoofInfo(cpu_name, cpu_codename.s))

----------------------------------------------------------------------------
(* generate_chromebook_report *)

Rec_Quirk == "Chromebook detected - ProtectMemoryRegions quirk will be enabled"

Rec_Igpu == "iGPU spoofing required for proper graphics acceleration"

Rec_CpuPrefix == "CPU will be spoofed as "

Rec_Firmware == "Ensure you have disabled firmware write protection before installation"

Rec_Acpi == "ChromeOS firmware may require additional ACPI patches"

(* out.get(key, default) on a dict the class built itself *)
OutGet(out, key, default) == IF key \in DOMAIN out THEN out[key] ELSE default

(* Lines 268-288, with the processor note appended before the graphics one. *)
Recommendations_CpuFirst(igpu_spoofing, cpu_spoofing) ==
    <<Rec_Quirk>>
    \o (IF OutGet(cpu_spoofing, "needs_spoofing", FALSE)
        THEN <<Rec_CpuPrefix \o OutGet(cpu_spoofing, "spoof_as", "supported model")>>
        ELSE <<>>)
    \o (IF DOMAIN igpu_spoofing # {} THEN <<Rec_Igpu>> ELSE <<>>)
    \o <<Rec_Firmware, Rec_Acpi>>

(* Lines 268-288: the list after the appends. *)
Recommendations(igpu_spoofing, cpu_spoofing) ==
    <<Rec_Quirk>>
    \o (IF DOMAIN igpu_spoofing # {} THEN <<Rec_Igpu>> ELSE <<>>)
    \o (IF OutGet(cpu_spoofing, "needs_spoofing", FALSE)
        THEN <<Rec_CpuPrefix \o OutGet(cpu_spoofing, "spoof_as", "supported model")>>
        ELSE <<>>)
    \o <<Rec_Firmware, Rec_Acpi>>

(* Lines 261-288: the three sections of a detected Chromebook. *)
SpoofedSections(report, macos_version) ==
    LET igpu == spoof_igpu_for_chromebook(report, macos_version) IN
    IF ~igpu.ok THEN Raise
    ELSE LET cpu == spoof_cpu_for_chromebook(report) IN
         IF ~cpu.ok THEN Raise
         ELSE Return([igpu_spoofing |-> igpu.val,
                      cpu_spoofing |-> cpu.val,
                      recommendations |-> Recommendations(igpu.val, cpu.val)])

(* Lines 255-257 and 260: the sections are filled in only when detected. *)
ReportSections_Unguarded(detected, report, macos_version) ==
    SpoofedSections(report, macos_version)

ReportSections(detected, report, macos_version) ==
    IF detected
    THEN SpoofedSections(report, macos_version)
    ELSE Return([igpu_spoofing |-> NoDict,
                 cpu_spoofing |-> NoDict,
                 recommendations |-> <<>>])

generate_chromebook_report(report, macos_version) ==
    LET detected == is_chromebook(report) IN
    IF ~detected.ok THEN Raise
    ELSE LET info == get_chromebook_info(report) IN
         IF ~info.ok THEN Raise
         ELSE LET sections == ReportSections(detected.val, report, macos_version) IN
              IF ~sections.ok THEN Raise
              ELSE Return([is_chromebook |-> detected.val,
                           chromebook_info |-> info.val,
                           igpu_spoofing |-> sections.val.igpu_spoofing,
                           cpu_spoofing |-> sections.val.cpu_spoofing,
                           recommendations |-> sections.val.recommendations])

----------------------------------------------------------------------------
(* The hardware reports the methods are called with.  A section is absent, *)
(* None or a dict; an entry of "System Devices" or "GPU" is None or a      *)
(* dict; a field is absent, None or a str.                                 *)

MaxDevices == 2

MaxGPUs == 2

MaxPad == 1

n_Google == <<"G","o","o","g","l","e">>
n_GOOGLE == <<"G","O","O","G","L","E">>
n_google == <<"g","o","o","g","l","e">>
n_gOoGlE == <<"H","P"," ","g","O","o","G","l","E"," ","x">>
n_Googl_e == <<"G","o","o","g","l"," ","e">>
n_Acer == <<"A","c","e","r">>
m_Intel == <<"I","n","t","e","l">>
m_Intel_Corporation == <<"I","n","t","e","l"," ","C","o","r","p","o","r","a","t","i","o","n">>
m_intel == <<"i","n","t","e","l">>
m_AMD == <<"A","M","D">>
t_Integrated_GPU == <<"I","n","t","e","g","r","a","t","e","d"," ","G","P","U">>
t_integrated_GPU == <<"i","n","t","e","g","r","a","t","e","d"," ","G","P","U">>
t_Discrete_GPU == <<"D","i","s","c","r","e","t","e"," ","G","P","U">>
v_8086 == <<"8","0","8","6","-">>
g_FFFF == <<"F","F","F","F">>
g_0A07 == <<"0","A","0","7">>
g_5a84 == <<"5","a","8","4">>
d_8086_0A065916 == <<"8","0","8","6","-","0","A","0","6","5","9","1","6">>
d_1002_5916 == <<"1","0","0","2","-","5","9","1","6">>
p_Celeron_N4020 == <<"C","e","l","e","r","o","n"," ","N","4","0","2","0">>
p_Intel_Celeron == <<"I","n","t","e","l","(","R",")"," ","C","e","l","e","r","o","n","(","R",")"," ","N","4","0","2","0">>
p_Pentium_N5000 == <<"P","e","n","t","i","u","m"," ","S","i","l","v","e","r"," ","N","5","0","0","0">>
p_celeron_n4020 == <<"c","e","l","e","r","o","n"," ","n","4","0","2","0">>
p_Core_i7 == <<"C","o","r","e"," ","i","7","-","1","0","6","5","G","7">>
c_Goldmont_Plus == <<"G","o","l","d","m","o","n","t"," ","P","l","u","s">>
c_Gemini_Goldmont == <<"G","e","m","i","n","i"," ","L","a","k","e"," ","(","G","o","l","d","m","o","n","t"," ","P","l","u","s",")">>
c_Skylake_Haswell == <<"S","k","y","l","a","k","e"," ","H","a","s","w","e","l","l">>
c_Ice_Comet == <<"I","c","e"," ","L","a","k","e"," ","C","o","m","e","t"," ","L","a","k","e">>
c_XYZ == <<"X","Y","Z">>
c_haswell == <<"h","a","s","w","e","l","l">>

Digits == <<"1","2","3","4","5","6","7","8","9">>

(* k characters "0" *)
Zeros(k) == [i \in 1..k |-> "0"]

(* The dicts with keys prefix1, prefix2, ... and values from `entries`, *)
(* of at most n items.                                                   *)
NamedItems(prefix, entries, n) ==
    UNION {{[i \in 1..k |-> <<prefix \o Digits[i], f[i]>>] : f \in [1..k -> entries]} : k \in 0..n}

Strs(S) == {PyStr(cs) : cs \in S}

(* "Motherboard" *)
MotherboardNames == Strs({n_Google, n_GOOGLE, n_google, n_gOoGlE, n_Googl_e, n_Acer})

Motherboard(name) == MkDict(<< <<"Name", name>> >>)

MotherboardsAll ==
    {Absent, PyNone} \cup {Motherboard(name) : name \in MotherboardNames \cup {Absent, PyNone}}

MotherboardsFew == {Motherboard(PyStr(n_Acer)), Motherboard(PyStr(n_Google))}

(* "System Devices" *)
Device(device_id, subsystem_id) ==
    MkDict(<< <<"Device ID", device_id>>, <<"Subsystem ID", subsystem_id>> >>)

DeviceEntries ==
    { Device(PyStr(id_k1), PyStr(sub_A)),
      Device(PyStr(id_k2), PyStr(sub_C)),
      Device(PyStr(id_k1), PyStr(sub_X)),
      Device(PyStr(id_k2), PyStr(sub_A)),
      Device(PyStr(id_kX), PyStr(sub_A)),
      Device(PyStr(id_k1), Absent),
      Device(PyStr(id_k1), PyNone),
      Device(PyNone, PyStr(sub_A)),
      Device(Absent, Absent),
      PyNone }

SystemDevicesAll ==
    {Absent, PyNone} \cup {PyDict(items) : items \in NamedItems("dev", DeviceEntries, MaxDevices)}

SystemDevicesFew ==
    {Absent, PyDict(<< <<"dev1", Device(PyStr(id_k1), PyStr(sub_B))>> >>)}

(* "GPU" *)
Gpu(manufacturer, device_type, device_id) ==
    MkDict(<< <<"Manufacturer", manufacturer>>,
              <<"Device ID", device_id>>,
              <<"Device Type", device_type>> >>)

AllPrefixes ==
    UNION {{IgpuRules[i].prefixes[k] : k \in 1..Len(IgpuRules[i].prefixes)} : i \in 1..Len(IgpuRules)}

(* Device ids around a 4-character id: alone or after the vendor and "-", *)
(* with up to MaxPad characters before or after it.                       *)
DeviceIds ==
    {pre \o id \o Zeros(post) :
        pre \in {<<>>} \cup {v_8086 \o Zeros(k) : k \in 0..MaxPad},
        id \in AllPrefixes \cup {g_FFFF, g_0A07, g_5a84},
        post \in 0..MaxPad}
    \cup {d_8086_0A065916}

GpuManufacturers == Strs({m_Intel, m_Intel_Corporation, m_intel, m_AMD}) \cup {Absent, PyNone}

GpuTypes == Strs({t_Integrated_GPU, t_integrated_GPU, t_Discrete_GPU}) \cup {Absent, PyNone}

GpuEntriesFew ==
    { Gpu(PyStr(m_Intel), PyStr(t_Integrated_GPU), PyStr(v_8086 \o h_5916)),
      Gpu(PyStr(m_Intel), PyStr(t_Integrated_GPU), PyStr(v_8086 \o h_3185)),
      Gpu(PyStr(m_Intel), PyStr(t_Integrated_GPU), PyStr(v_8086 \o g_FFFF)),
      Gpu(PyStr(m_Intel), PyStr(t_Discrete_GPU), PyStr(v_8086 \o h_5916)),
      Gpu(PyStr(m_AMD), PyStr(t_Integrated_GPU), PyStr(d_1002_5916)),
      PyNone }

GpuEntriesAll ==
    {Gpu(m, t, d) : m \in GpuManufacturers, t \in GpuTypes,
                    d \in {PyStr(v_8086 \o h_5916), Absent, PyNone}}
    \cup {Gpu(PyStr(m_Intel_Corporation), PyStr(t_Integrated_GPU), PyStr(d)) : d \in DeviceIds}

GpusAll ==
    {Absent, PyNone}
    \cup {PyDict(items) : items \in NamedItems("gpu", GpuEntriesFew, MaxGPUs)}
    \cup {PyDict(<< <<"gpu1", e>> >>) : e \in GpuEntriesAll}

GpusFew ==
    { Absent,
      PyDict(<< <<"gpu1", Gpu(PyStr(m_Intel), PyStr(t_Integrated_GPU), PyStr(v_8086 \o h_5916))>> >>),
      PyDict(<< <<"gpu1", Gpu(PyStr(m_AMD), PyStr(t_Discrete_GPU), PyStr(d_1002_5916))>> >>) }

(* "CPU" *)
Cpu(processor_name, codename) ==
    MkDict(<< <<"Processor Name", processor_name>>, <<"Codename", codename>> >>)

ProcessorNames ==
    Strs({p_Celeron_N4020, p_Intel_Celeron, p_Pentium_N5000, p_celeron_n4020, p_Core_i7})
    \cup {Absent, PyNone}

Codenames ==
    Strs({s_Haswell, s_Broadwell, s_Skylake, s_Kaby_Lake, s_Apollo_Lake, s_Goldmont,
          s_Gemini_Lake, s_Comet_Lake, s_Ice_Lake, c_Goldmont_Plus, c_Gemini_Goldmont,
          c_Skylake_Haswell, c_Ice_Comet, c_XYZ, c_haswell})
    \cup {Absent, PyNone}

CpusAll == {Absent, PyNone} \cup {Cpu(p, c) : p \in ProcessorNames, c \in Codenames}

CpusFew == {Cpu(PyStr(p_Core_i7), PyStr(s_Ice_Lake)), Cpu(PyStr(p_Celeron_N4020), PyStr(s_Gemini_Lake))}

Report(motherboard, system_devices, gpus, cpu) ==
    MkDict(<< <<"Motherboard", motherboard>>,
              <<"System Devices", system_devices>>,
              <<"GPU", gpus>>,
              <<"CPU", cpu>> >>)

GpusOne ==
    {PyDict(<< <<"gpu1", Gpu(PyStr(m_Intel), PyStr(t_Integrated_GPU), PyStr(v_8086 \o h_5916))>> >>)}

CpusOne == {Cpu(PyStr(p_Celeron_N4020), PyStr(s_Gemini_Lake))}

(* The reports of one call: every motherboard with every device list;     *)
(* every GPU section; every CPU section; each with a few of the others.   *)
ReportChoices ==
    <<[motherboards |-> MotherboardsAll, system_devices |-> SystemDevicesAll,
       gpus |-> GpusOne, cpus |-> CpusOne],
      [motherboards |-> MotherboardsFew, system_devices |-> SystemDevicesFew,
       gpus |-> GpusAll, cpus |-> CpusFew],
      [motherboards |-> MotherboardsFew, system_devices |-> SystemDevicesFew,
       gpus |-> GpusFew, cpus |-> CpusAll]>>

(* Darwin versions; no method reads the argument. *)
MacosVersions == {"22.0.0", "24.0.0"}

----------------------------------------------------------------------------
(* The calls.  A behaviour is one call of one method on one report: op is   *)
(* "none" before the call and the method's name after it, ret what the     *)
(* call returned or that it raised.  No method writes to the report.       *)

NoCall == [ok |-> TRUE, val |-> "no call"]

Init ==
    /\ \E k \in 1..Len(ReportChoices) :
          \E m \in ReportChoices[k].motherboards, s \in ReportChoices[k].system_devices,
             g \in ReportChoices[k].gpus, c \in ReportChoices[k].cpus :
              hardware_report = Report(m, s, g, c)
    /\ op = "none"
    /\ ret = NoCall

Call_is_chromebook ==
    /\ op = "none"
    /\ op' = "is_chromebook"
    /\ ret' = is_chromebook(hardware_report)
    /\ UNCHANGED hardware_report

Call_get_chromebook_info ==
    /\ op = "none"
    /\ op' = "get_chromebook_info"
    /\ ret' = get_chromebook_info(hardware_report)
    /\ UNCHANGED hardware_report

Call_spoof_igpu_for_chromebook ==
    \E macos_version \in MacosVersions :
        /\ op = "none"
        /\ op' = "spoof_igpu_for_chromebook"
        /\ ret' = spoof_igpu_for_chromebook(hardware_report, macos_version)
        /\ UNCHANGED hardware_report

Call_spoof_cpu_for_chromebook ==
    /\ op = "none"
    /\ op' = "spoof_cpu_for_chromebook"
    /\ ret' = spoof_cpu_for_chromebook(hardware_report)
    /\ UNCHANGED hardware_report

Call_generate_chromebook_report ==
    \E macos_version \in MacosVersions :
        /\ op = "none"
        /\ op' = "generate_chromebook_report"
        /\ ret' = generate_chromebook_report(hardware_report, macos_version)
        /\ UNCHANGED hardware_report

Next ==
    \/ Call_is_chromebook
    \/ Call_get_chromebook_info
    \/ Call_spoof_igpu_for_chromebook
    \/ Call_spoof_cpu_for_chromebook
    \/ Call_generate_chromebook_report

Spec == Init /\ [][Next]_vars

----------------------------------------------------------------------------
(* The report as the properties below read it *)

(* The value under a key, Absent when the key is missing. *)
Lookup(dict, key) ==
    IF dict.t = "dict" /\ \E i \in 1..Len(dict.d) : dict.d[i][1] = key
    THEN dict.d[CHOOSE i \in 1..Len(dict.d) : dict.d[i][1] = key][2]
    ELSE Absent

(* The items of a section, none when the section is missing or no dict. *)
ItemsOf(key) == Lookup(hardware_report, key).d

(* The characters of a field, none when the field is missing or no str. *)
Chars(dict, key) == Lookup(dict, key).s

(* cs holds `upper` in some letter case: each character is the upper- or *)
(* the lower-case letter.                                                *)
ContainsAnyCase(cs, upper, lower) ==
    \E i \in 0..(Len(cs) - Len(upper)) :
        \A j \in 1..Len(upper) : cs[i + j] \in {upper[j], lower[j]}

VendorNameMatches ==
    ContainsAnyCase(Chars(Lookup(hardware_report, "Motherboard"), "Name"), s_GOOGLE, n_google)

(* Rule B on one device entry. *)
RuleB(device_props) ==
    LET device_id == Lookup(device_props, "Device ID")
        subsystem_id == Lookup(device_props, "Subsystem ID")
    IN  /\ device_id.t = "str"
        /\ device_id.s \in DOMAIN ChromebookIDs
        /\ subsystem_id.t = "str"
        /\ subsystem_id.s \in ChromebookIDs[device_id.s]

RuleBItem(item) == RuleB(item[2])

KeyInDataset(device_props) ==
    /\ Lookup(device_props, "Device ID").t = "str"
    /\ Lookup(device_props, "Device ID").s \in DOMAIN ChromebookIDs

SomeDeviceMatches ==
    \E i \in 1..Len(ItemsOf("System Devices")) : RuleBItem(ItemsOf("System Devices")[i])

(* The descriptors of the entries that satisfy Rule B, in the report's order. *)
MatchedDevices ==
    LET matched == SelectSeq(ItemsOf("System Devices"), RuleBItem) IN
    [i \in 1..Len(matched) |->
        [name |-> matched[i][1],
         device_id |-> Lookup(matched[i][2], "Device ID"),
         subsystem_id |-> Lookup(matched[i][2], "Subsystem ID")]]

----------------------------------------------------------------------------
(* C3: is_chromebook returns true if and only if the motherboard Name      *)
(* contains "GOOGLE" in any letter case or some System Devices entry has a *)
(* Device ID that is a key of the dataset and a Subsystem ID in that key's *)
(* set; a device whose id is a key but whose subsystem id is not in that   *)
(* key's set does not make the result true.                                *)
C3_Detection ==
    (op = "is_chromebook" /\ ret.ok) =>
        (ret.val <=> (VendorNameMatches \/ SomeDeviceMatches))

(* is_chromebook returned false for a report that has a device whose id is *)
(* a key of the dataset and whose subsystem id is in another key's set.    *)
C3_Witness ==
    /\ op = "is_chromebook"
    /\ ret.ok
    /\ ~ret.val
    /\ \E i \in 1..Len(ItemsOf("System Devices")) :
          LET device_props == ItemsOf("System Devices")[i][2] IN
          /\ KeyInDataset(device_props)
          /\ Chars(device_props, "Subsystem ID") = sub_A
          /\ sub_A \notin ChromebookIDs[Chars(device_props, "Device ID")]

(* C9: chromebook_devices of get_chromebook_info lists exactly the System  *)
(* Devices entries that satisfy Rule B, each once, in the report's order;  *)
(* is_chromebook is true if and only if the vendor name matches or the     *)
(* list is non-empty.                                                      *)
C9_Enumeration ==
    (op = "get_chromebook_info" /\ ret.ok) =>
        /\ ret.val.chromebook_devices = MatchedDevices
        /\ ret.val.is_chromebook <=> (VendorNameMatches \/ ret.val.chromebook_devices # <<>>)

(* Two devices, the first with a dataset key but the wrong subsystem id:   *)
(* only the second is listed.                                              *)
C9_Witness ==
    /\ op = "get_chromebook_info"
    /\ ret.ok
    /\ Len(ItemsOf("System Devices")) = 2
    /\ KeyInDataset(ItemsOf("System Devices")[1][2])
    /\ Len(ret.val.chromebook_devices) = 1
    /\ ret.val.chromebook_devices[1].name = "dev2"

(* C4: when is_chromebook returns false, generate_chromebook_report        *)
(* returns igpu_spoofing empty, cpu_spoofing empty and recommendations     *)
(* empty, whatever the GPU and CPU sections hold.                          *)
C4_NotDetectedEmpty ==
    (/\ op = "generate_chromebook_report"
     /\ is_chromebook(hardware_report).ok
     /\ ~is_chromebook(hardware_report).val) =>
        /\ ret.ok
        /\ ret.val.is_chromebook = FALSE
        /\ DOMAIN ret.val.igpu_spoofing = {}
        /\ DOMAIN ret.val.cpu_spoofing = {}
        /\ ret.val.recommendations = <<>>

(* A report that is no Chromebook, with an Intel integrated GPU of a known *)
(* generation and a Celeron, and the report generated for it.              *)
C4_Witness ==
    /\ op = "generate_chromebook_report"
    /\ ret.ok
    /\ ~ret.val.is_chromebook
    /\ spoof_igpu_for_chromebook(hardware_report, "22.0.0").ok
    /\ DOMAIN spoof_igpu_for_chromebook(hardware_report, "22.0.0").val # {}
    /\ spoof_cpu_for_chromebook(hardware_report).ok
    /\ spoof_cpu_for_chromebook(hardware_report).val.needs_spoofing

(* The five recommendations, and which of them a report must hold. *)
FixedRecommendation(i, cpu_spoofing) ==
    CASE i = 1 -> Rec_Quirk
      [] i = 2 -> Rec_Igpu
      [] i = 3 -> "CPU will be spoofed as " \o cpu_spoofing.spoof_as
      [] i = 4 -> Rec_Firmware
      [] i = 5 -> Rec_Acpi

PresentRecommendations(igpu_spoofing, cpu_spoofing) ==
    {1, 4, 5}
    \cup (IF DOMAIN igpu_spoofing # {} THEN {2} ELSE {})
    \cup (IF cpu_spoofing.needs_spoofing THEN {3} ELSE {})

(* C6: for a detected Chromebook the recommendations are the fixed         *)
(* sequence quirk, graphics, processor (naming spoof_as), firmware, ACPI,  *)
(* with the graphics note present iff igpu_spoofing is non-empty and the   *)
(* processor note iff needs_spoofing; 3 to 5 items, order never changed.   *)
C6_Recommendations ==
    (op = "generate_chromebook_report" /\ ret.ok /\ ret.val.is_chromebook) =>
        LET present == PresentRecommendations(ret.val.igpu_spoofing, ret.val.cpu_spoofing)
            kept == SelectSeq(<<1, 2, 3, 4, 5>>, LAMBDA i : i \in present)
        IN  /\ ret.val.recommendations =
                  [k \in 1..Len(kept) |-> FixedRecommendation(kept[k], ret.val.cpu_spoofing)]
            /\ Len(ret.val.recommendations) \in 3..5

(* A detected Chromebook with both substitutions: all five items. *)
C6_Witness ==
    /\ op = "generate_chromebook_report"
    /\ ret.ok
    /\ ret.val.is_chromebook
    /\ DOMAIN ret.val.igpu_spoofing # {}
    /\ ret.val.cpu_spoofing.needs_spoofing
    /\ Len(ret.val.recommendations) = 5

----------------------------------------------------------------------------
(* The generation rows as the properties name them: generation, prefixes,  *)
(* substitute device id, platform tag.                                     *)
GraphicsTable == <<
    [generation |-> "Haswell", prefixes |-> {h_0A06, h_0A16, h_0A1E, h_0A26, h_0A2E},
     substitute |-> "12040000", platform_tag |-> "0600260A"],
    [generation |-> "Broadwell", prefixes |-> {h_1606, h_1616, h_161E, h_1626, h_162B},
     substitute |-> "16160000", platform_tag |-> "06002616"],
    [generation |-> "Skylake", prefixes |-> {h_1906, h_1916, h_191E, h_1926, h_192B},
     substitute |-> "16190000", platform_tag |-> "00001619"],
    [generation |-> "Kaby Lake", prefixes |-> {h_5906, h_5916, h_591E, h_5926, h_5927},
     substitute |-> "16590000", platform_tag |-> "00001659"],
    [generation |-> "Apollo Lake", prefixes |-> {h_5A84, h_5A85},
     substitute |-> "5A850000", platform_tag |-> "00005A84"],
    [generation |-> "Gemini Lake", prefixes |-> {h_3184, h_3185},
     substitute |-> "85310000", platform_tag |-> "00003185"],
    [generation |-> "Comet Lake", prefixes |-> {h_9B41, h_9BA5, h_9BA8},
     substitute |-> "A53B0000", platform_tag |-> "0000A53B"],
    [generation |-> "Ice Lake", prefixes |-> {h_8A51, h_8A52, h_8A5A},
     substitute |-> "5A528A00", platform_tag |-> "00528A8A"] >>

(* The GPU entries of the report that are Intel and integrated. *)
IntelIntegrated(gpu_props) ==
    /\ Lookup(gpu_props, "Manufacturer").t = "str"
    /\ Contains(Chars(gpu_props, "Manufacturer"), s_Intel)
    /\ Lookup(gpu_props, "Device Type").t = "str"
    /\ Contains(Chars(gpu_props, "Device Type"), s_Integrated)

(* The last four characters of an id of length at least 4. *)
Trailing4(cs) == SubSeq(cs, Len(cs) - 3, Len(cs))

(* The four characters after the first five of an id of length at least 9. *)
AfterVendor4(cs) == SubSeq(cs, 6, 9)

(* The result holds, for the GPU named gpu_name, the substitute of `row`. *)
HasSubstitute(spoof_config, gpu_name, row) ==
    /\ gpu_name \in DOMAIN spoof_config
    /\ spoof_config[gpu_name].spoofed_device_id = row.substitute
    /\ spoof_config[gpu_name]["AAPL,ig-platform-id"] = row.platform_tag

(* C1 as stated: an Intel integrated GPU whose Device ID has length at     *)
(* least 9 and whose trailing 4 characters are a prefix of a generation    *)
(* row gets that row's substitute device id and platform tag, for every    *)
(* length >= 9.                                                            *)
C1_TrailingFour ==
    (op = "spoof_igpu_for_chromebook" /\ ret.ok) =>
        \A i \in 1..Len(ItemsOf("GPU")) : \A r \in 1..Len(GraphicsTable) :
            LET gpu_name == ItemsOf("GPU")[i][1]
                gpu_props == ItemsOf("GPU")[i][2]
                device_id == Chars(gpu_props, "Device ID")
            IN  (/\ IntelIntegrated(gpu_props)
                 /\ Len(device_id) >= 9
                 /\ Trailing4(device_id) \in GraphicsTable[r].prefixes)
                => HasSubstitute(ret.val, gpu_name, GraphicsTable[r])

(* C1 amended: an Intel integrated GPU whose Device ID has length at least *)
(* 9 and whose characters 6 to 9 (the four after the first five) are a     *)
(* prefix of a generation row gets that row's substitute device id and     *)
(* platform tag; at length 9 these are the trailing four characters.       *)
C1_AfterVendor ==
    (op = "spoof_igpu_for_chromebook" /\ ret.ok) =>
        \A i \in 1..Len(ItemsOf("GPU")) : \A r \in 1..Len(GraphicsTable) :
            LET gpu_name == ItemsOf("GPU")[i][1]
                gpu_props == ItemsOf("GPU")[i][2]
                device_id == Chars(gpu_props, "Device ID")
            IN  (/\ IntelIntegrated(gpu_props)
                 /\ Len(device_id) >= 9
                 /\ AfterVendor4(device_id) \in GraphicsTable[r].prefixes)
                => HasSubstitute(ret.val, gpu_name, GraphicsTable[r])

(* An Intel integrated GPU whose id is longer than 9 characters and has a  *)
(* row's prefix at characters 6 to 9 but not at its end, substituted.      *)
C1_Witness ==
    /\ op = "spoof_igpu_for_chromebook"
    /\ ret.ok
    /\ \E i \in 1..Len(ItemsOf("GPU")) : \E r \in 1..Len(GraphicsTable) :
          LET gpu_props == ItemsOf("GPU")[i][2]
              device_id == Chars(gpu_props, "Device ID")
          IN  /\ IntelIntegrated(gpu_props)
              /\ Len(device_id) > 9
              /\ AfterVendor4(device_id) \in GraphicsTable[r].prefixes
              /\ Trailing4(device_id) \notin GraphicsTable[r].prefixes
              /\ HasSubstitute(ret.val, ItemsOf("GPU")[i][1], GraphicsTable[r])

(* The identifier the generation rows are tried on: characters 6 to 9 of   *)
(* an id of length at least 9, the first four of a shorter one.            *)
GenerationId(cs) ==
    IF Len(cs) >= 9 THEN AfterVendor4(cs)
    ELSE SubSeq(cs, 1, IF Len(cs) < 4 THEN Len(cs) ELSE 4)

MatchesSomeRow(cs) == \E r \in 1..Len(GraphicsTable) : GenerationId(cs) \in GraphicsTable[r].prefixes

(* C7: the result of spoof_igpu_for_chromebook has no entry for a GPU      *)
(* whose Manufacturer does not contain "Intel" or whose Device Type does   *)
(* not contain "Integrated" (case-sensitive), whatever its Device ID;      *)
(* every key is the name of a GPU entry of the report; a GPU that passes   *)
(* both checks and matches no generation row is absent too.                *)
C7_OnlyIntelIntegrated ==
    (op = "spoof_igpu_for_chromebook" /\ ret.ok) =>
        \A gpu_name \in DOMAIN ret.val :
            \E i \in 1..Len(ItemsOf("GPU")) :
                /\ ItemsOf("GPU")[i][1] = gpu_name
                /\ IntelIntegrated(ItemsOf("GPU")[i][2])
                /\ MatchesSomeRow(Chars(ItemsOf("GPU")[i][2], "Device ID"))

(* Two GPUs whose ids both end in a Kaby Lake prefix, the second not made  *)
(* by Intel: only the first is in the result.                              *)
C7_Witness ==
    /\ op = "spoof_igpu_for_chromebook"
    /\ ret.ok
    /\ Len(ItemsOf("GPU")) = 2
    /\ DOMAIN ret.val = {"gpu1"}
    /\ ~IntelIntegrated(ItemsOf("GPU")[2][2])
    /\ Trailing4(Chars(ItemsOf("GPU")[2][2], "Device ID")) = h_5916

(* C10: the prefix sets of the eight branches are pairwise disjoint, so at *)
(* most one branch matches an identifier and the entry produced is the     *)
(* same in whatever order the branches are tried.                          *)
C10_DisjointRows ==
    (op = "spoof_igpu_for_chromebook" /\ ret.ok) =>
        /\ \A a, b \in 1..Len(IgpuRules) :
              a # b =>
                  \A x \in 1..Len(IgpuRules[a].prefixes) : \A y \in 1..Len(IgpuRules[b].prefixes) :
                      IgpuRules[a].prefixes[x] # IgpuRules[b].prefixes[y]
        /\ \A i \in 1..Len(ItemsOf("GPU")) :
              LET gpu_name == ItemsOf("GPU")[i][1]
                  device_id == Lookup(ItemsOf("GPU")[i][2], "Device ID")
                  matching == MatchingRules(IgpuRules, DeviceIdShort(device_id.s))
              IN  /\ Cardinality(matching) <= 1
                  /\ gpu_name \in DOMAIN ret.val =>
                        /\ matching # {}
                        /\ ret.val[gpu_name] = SpoofEntry(IgpuRules[Max(matching)], device_id)

(* A GPU substituted by the one branch that matches it. *)
C10_Witness ==
    /\ op = "spoof_igpu_for_chromebook"
    /\ ret.ok
    /\ \E i \in 1..Len(ItemsOf("GPU")) :
          /\ ItemsOf("GPU")[i][1] \in DOMAIN ret.val
          /\ Cardinality(MatchingRules(IgpuRules,
                 DeviceIdShort(Chars(ItemsOf("GPU")[i][2], "Device ID")))) = 1

----------------------------------------------------------------------------
(* The processor rows as the properties name them, in their order: the     *)
(* substrings looked for in Codename and the substitute pair.              *)
ProcessorTable == <<
    [substrings |-> {s_Haswell}, pair |-> <<"Core i5-4300U", "C3060300">>],
    [substrings |-> {s_Broadwell}, pair |-> <<"Core i5-5300U", "D4060300">>],
    [substrings |-> {s_Skylake}, pair |-> <<"Core i5-6300U", "E3060300">>],
    [substrings |-> {s_Kaby_Lake}, pair |-> <<"Core i5-7300U", "E9060300">>],
    [substrings |-> {s_Apollo_Lake, s_Goldmont}, pair |-> <<"Core i3-7100U", "E9060300">>],
    [substrings |-> {s_Gemini_Lake}, pair |-> <<"Core i3-8100", "EA060900">>],
    [substrings |-> {s_Comet_Lake}, pair |-> <<"Core i5-10210U", "EC060A00">>],
    [substrings |-> {s_Ice_Lake}, pair |-> <<"Core i5-1035G1", "E5060700">>] >>

GenericPair == <<"Core i5 (Generic)", "E3060300">>

RowOccurs(r, codename) == \E sub \in ProcessorTable[r].substrings : Contains(codename, sub)

(* The pair of the first row whose substring occurs, the generic one if none. *)
ExpectedPair(codename) ==
    IF \E r \in 1..Len(ProcessorTable) : RowOccurs(r, codename)
    THEN ProcessorTable[CHOOSE r \in 1..Len(ProcessorTable) :
                            /\ RowOccurs(r, codename)
                            /\ \A q \in 1..(r - 1) : ~RowOccurs(q, codename)].pair
    ELSE GenericPair

ProcessorName == Chars(Lookup(hardware_report, "CPU"), "Processor Name")

Codename == Chars(Lookup(hardware_report, "CPU"), "Codename")

LowEndName == Contains(ProcessorName, s_Celeron) \/ Contains(ProcessorName, s_Pentium)

(* C5: for a Processor Name containing "Celeron" or "Pentium" the result   *)
(* has needs_spoofing true and (spoof_as, cpuid_data) the pair of the      *)
(* first row, in the order Haswell ... Ice Lake, whose substring occurs in *)
(* Codename, and ("Core i5 (Generic)", "E3060300") when none occurs;       *)
(* codename "Gemini Lake" yields ("Core i3-8100", "EA060900").             *)
C5_FirstRow ==
    (op = "spoof_cpu_for_chromebook" /\ ret.ok /\ LowEndName) =>
        /\ ret.val.needs_spoofing
        /\ <<ret.val.spoof_as, ret.val.cpuid_data>> = ExpectedPair(Codename)
        /\ Codename = s_Gemini_Lake =>
              <<ret.val.spoof_as, ret.val.cpuid_data>> = <<"Core i3-8100", "EA060900">>

(* A Celeron whose codename holds the substrings of two rows, Gemini Lake  *)
(* and Goldmont: the earlier row, Apollo Lake / Goldmont, is taken.        *)
C5_Witness ==
    /\ op = "spoof_cpu_for_chromebook"
    /\ ret.ok
    /\ LowEndName
    /\ Contains(Codename, s_Gemini_Lake)
    /\ Contains(Codename, s_Goldmont)
    /\ ret.val.spoof_as = "Core i3-7100U"

(* C8: for a Processor Name containing neither "Celeron" nor "Pentium" the *)
(* result has needs_spoofing false, original_cpu the Processor Name and    *)
(* reason empty, whatever the Codename; and in every result spoof_as and   *)
(* cpuid_data are present if and only if needs_spoofing is true.           *)
C8_NoSubstitution ==
    (op = "spoof_cpu_for_chromebook" /\ ret.ok) =>
        /\ ~LowEndName =>
              /\ ret.val.needs_spoofing = FALSE
              /\ ret.val.original_cpu = PyStr(ProcessorName)
              /\ ret.val.reason = ""
        /\ ("spoof_as" \in DOMAIN ret.val) <=> ret.val.needs_spoofing
        /\ ("cpuid_data" \in DOMAIN ret.val) <=> ret.val.needs_spoofing

(* A processor named in lower case "celeron", with a known codename: no    *)
(* substitution and no substitute keys.                                    *)
C8_Witness ==
    /\ op = "spoof_cpu_for_chromebook"
    /\ ret.ok
    /\ ProcessorName = p_celeron_n4020
    /\ Codename = s_Haswell
    /\ ~ret.val.needs_spoofing
    /\ DOMAIN ret.val = {"needs_spoofing", "original_cpu", "reason"}

----------------------------------------------------------------------------
(* Reports with nothing malformed, and reports with nothing absent *)

IsDictOrAbsent(x) == x.t \in {"dict", "absent"}

IsStrOrAbsent(x) == x.t \in {"str", "absent"}

(* Every section and entry that is present is a dict, every field a str. *)
WellTyped ==
    /\ IsDictOrAbsent(Lookup(hardware_report, "Motherboard"))
    /\ IsStrOrAbsent(Lookup(Lookup(hardware_report, "Motherboard"), "Name"))
    /\ IsDictOrAbsent(Lookup(hardware_report, "System Devices"))
    /\ \A i \in 1..Len(ItemsOf("System Devices")) :
          LET device_props == ItemsOf("System Devices")[i][2] IN
          /\ device_props.t = "dict"
          /\ IsStrOrAbsent(Lookup(device_props, "Device ID"))
          /\ IsStrOrAbsent(Lookup(device_props, "Subsystem ID"))
    /\ IsDictOrAbsent(Lookup(hardware_report, "GPU"))
    /\ \A i \in 1..Len(ItemsOf("GPU")) :
          LET gpu_props == ItemsOf("GPU")[i][2] IN
          /\ gpu_props.t = "dict"
          /\ IsStrOrAbsent(Lookup(gpu_props, "Manufacturer"))
          /\ IsStrOrAbsent(Lookup(gpu_props, "Device ID"))
          /\ IsStrOrAbsent(Lookup(gpu_props, "Device Type"))
    /\ IsDictOrAbsent(Lookup(hardware_report, "CPU"))
    /\ IsStrOrAbsent(Lookup(Lookup(hardware_report, "CPU"), "Processor Name"))
    /\ IsStrOrAbsent(Lookup(Lookup(hardware_report, "CPU"), "Codename"))

(* Some section and some field of a present section are absent. *)
SomethingAbsent ==
    /\ \E key \in {"Motherboard", "System Devices", "GPU", "CPU"} :
          Lookup(hardware_report, key).t = "absent"
    /\ \/ /\ Lookup(hardware_report, "CPU").t = "dict"
          /\ Lookup(Lookup(hardware_report, "CPU"), "Codename").t = "absent"
       \/ /\ Lookup(hardware_report, "Motherboard").t = "dict"
          /\ Lookup(Lookup(hardware_report, "Motherboard"), "Name").t = "absent"

(* A str field with "" for an absent one. *)
StrOrEmpty(dict, key) == PyStr(Chars(dict, key))

(* The well-typed report with every absent section written as an empty    *)
(* dict and every absent field as the empty string.                       *)
FilledReport ==
    PyDict(<<
        <<"Motherboard",
          PyDict(<< <<"Name", StrOrEmpty(Lookup(hardware_report, "Motherboard"), "Name")>> >>)>>,
        <<"System Devices",
          PyDict([i \in 1..Len(ItemsOf("System Devices")) |->
              <<ItemsOf("System Devices")[i][1],
                PyDict(<< <<"Device ID", StrOrEmpty(ItemsOf("System Devices")[i][2], "Device ID")>>,
                          <<"Subsystem ID",
                            StrOrEmpty(ItemsOf("System Devices")[i][2], "Subsystem ID")>> >>)>>])>>,
        <<"GPU",
          PyDict([i \in 1..Len(ItemsOf("GPU")) |->
              <<ItemsOf("GPU")[i][1],
                PyDict(<< <<"Manufacturer", StrOrEmpty(ItemsOf("GPU")[i][2], "Manufacturer")>>,
                          <<"Device ID", StrOrEmpty(ItemsOf("GPU")[i][2], "Device ID")>>,
                          <<"Device Type", StrOrEmpty(ItemsOf("GPU")[i][2], "Device Type")>> >>)>>])>>,
        <<"CPU",
          PyDict(<< <<"Processor Name", StrOrEmpty(Lookup(hardware_report, "CPU"), "Processor Name")>>,
                    <<"Codename", StrOrEmpty(Lookup(hardware_report, "CPU"), "Codename")>> >>)>> >>)

ReportKeys == {"is_chromebook", "chromebook_info", "igpu_spoofing", "cpu_spoofing", "recommendations"}

(* chromebook_info but for its "motherboard" entry, which get_chromebook_info *)
(* sets to "Unknown", not to "", when the Name is absent.                      *)
InfoButName(info) ==
    [is_chromebook |-> info.is_chromebook, chromebook_devices |-> info.chromebook_devices]

=============================================================================
